---- MODULE Spec2Model ----
(***************************************************************************)
(* FlightTaskAutoMapper (src/lib/FlightTasks/tasks/AutoMapper):            *)
(* the waypoint-type state machine that maps the navigator's waypoint type *)
(* to position/velocity/thrust setpoints and constraints, once per tick.   *)
(*                                                                         *)
(* Numbers.  A C++ float is modelled as a record [k, n, d]: k = "fin" is   *)
(* the exact rational n/d (d > 0, lowest terms), k = "nan", "pinf" and     *)
(* "ninf" are the IEEE special values.  Arithmetic is exact on rationals   *)
(* (no rounding) and follows IEEE-754 on the special values.               *)
(***************************************************************************)
EXTENDS Integers, Sequences, FiniteSets, TLC

----------------------------------------------------------------------------
(* Bounds of the model. *)

\* vehicle altitudes: position(2) ranges over -MaxAlt..0 (NED, down positive)
MaxAlt == 3
\* distance-sensor readings: 1..MaxDist, and the non-finite readings
MaxDist == 3
\* stored values of MPC_LAND_ALT1 and MPC_LAND_ALT2: 1..MaxParamAlt
MaxParamAlt == 3
\* home altitude references (home_position.z): 1..MaxHome
MaxHome == 1

----------------------------------------------------------------------------
(* Floats. *)

RECURSIVE GCD(_, _)
GCD(a, b) == IF b = 0 THEN a ELSE GCD(b, a % b)

Abs(n) == IF n < 0 THEN -n ELSE n

NaN == [k |-> "nan", n |-> 0, d |-> 1]
PInf == [k |-> "pinf", n |-> 0, d |-> 1]
NInf == [k |-> "ninf", n |-> 0, d |-> 1]

\* the rational n/d, d # 0, in lowest terms with a positive denominator
Rat(n, d) ==
    LET g == GCD(Abs(n), Abs(d))
        s == IF d < 0 THEN -1 ELSE 1
    IN  [k |-> "fin", n |-> (s * n) \div g, d |-> (s * d) \div g]

F(n) == [k |-> "fin", n |-> n, d |-> 1]

\* PX4_ISFINITE
IsFinite(x) == x.k = "fin"

IsNaN(x) == x.k = "nan"

\* sign of a non-NaN float: -1, 0, 1
Sign(x) ==
    CASE x.k = "pinf" -> 1
      [] x.k = "ninf" -> -1
      [] OTHER -> IF x.n > 0 THEN 1 ELSE IF x.n < 0 THEN -1 ELSE 0

Signed(s) == IF s > 0 THEN PInf ELSE NInf

FNeg(x) ==
    CASE x.k = "nan" -> NaN
      [] x.k = "pinf" -> NInf
      [] x.k = "ninf" -> PInf
      [] OTHER -> Rat(-x.n, x.d)

FAdd(x, y) ==
    CASE x.k = "nan" \/ y.k = "nan" -> NaN
      [] x.k = "fin" /\ y.k = "fin" -> Rat(x.n * y.d + y.n * x.d, x.d * y.d)
      [] x.k = "fin" -> y
      [] y.k = "fin" -> x
      [] OTHER -> IF x.k = y.k THEN x ELSE NaN

FSub(x, y) == FAdd(x, FNeg(y))

FMul(x, y) ==
    CASE x.k = "nan" \/ y.k = "nan" -> NaN
      [] x.k = "fin" /\ y.k = "fin" -> Rat(x.n * y.n, x.d * y.d)
      [] OTHER -> IF Sign(x) * Sign(y) = 0 THEN NaN ELSE Signed(Sign(x) * Sign(y))

FDiv(x, y) ==
    CASE x.k = "nan" \/ y.k = "nan" -> NaN
      [] x.k = "fin" /\ y.k = "fin" ->
            IF y.n # 0 THEN Rat(x.n * y.d, x.d * y.n)
            ELSE IF x.n = 0 THEN NaN ELSE Signed(Sign(x))
      [] x.k = "fin" -> F(0)
      [] y.k = "fin" -> Signed(Sign(x) * (IF Sign(y) < 0 THEN -1 ELSE 1))
      [] OTHER -> NaN

\* x < y and x > y of C++: false as soon as one side is NaN
FLt(x, y) ==
    CASE x.k = "nan" \/ y.k = "nan" -> FALSE
      [] x.k = "fin" /\ y.k = "fin" -> x.n * y.d < y.n * x.d
      [] OTHER -> (x.k = "ninf" /\ y.k # "ninf") \/ (x.k = "fin" /\ y.k = "pinf")

FGt(x, y) == FLt(y, x)

\* Vector3f
Vec3(x, y, z) == <<x, y, z>>
NaN3 == Vec3(NaN, NaN, NaN)
Zero3 == Vec3(F(0), F(0), F(0))

----------------------------------------------------------------------------
(* Types and values of the program. *)

\* WaypointType
WaypointTypes == {"idle", "land", "takeoff", "loiter", "position", "velocity"}

\* value of _type_previous before the first tick of an activation
NoType == "none"

\* vehicle_constraints_s::GEAR_*
GEAR_UP == "GEAR_UP"
GEAR_DOWN == "GEAR_DOWN"
GEAR_KEEP == "GEAR_KEEP"

\* parameters that the model holds fixed (one unit = one unit of the parameter)
MPC_LAND_SPEED == 1
MPC_TILTMAX_LND == 12
MPC_TKO_SPEED == 2
MPC_TILTMAX_AIR == 45
MPC_Z_VEL_MAX_UP == 6
MPC_Z_VEL_MAX_DN == 3
mc_cruise_speed == 10

\* the altitude of _highEnoughForLandingGear, 2.0f
GearAltitude == 2

----------------------------------------------------------------------------
(* Inputs of a tick: what the framework refreshes before update(). *)

Positions == {Vec3(F(1), F(2), F(-a)) : a \in 0..MaxAlt}
Velocities == {Vec3(F(0), F(0), F(1)), Vec3(F(3), F(4), F(0))}
Targets == {Vec3(F(5), F(6), F(-2)), Vec3(F(7), F(8), F(-4))}
Distances == {NaN, PInf} \cup {F(d) : d \in 1..MaxDist}
Homes == {[valid_alt |-> v, z |-> F(h)] : v \in BOOLEAN, h \in 1..MaxHome}
NoHome == [valid_alt |-> FALSE, z |-> F(1)]
ParamAlts == 1..MaxParamAlt
SpeedsAtTarget == {F(0), F(1)}

----------------------------------------------------------------------------
(* State. *)

VARIABLES
    task,             \* the members of the FlightTaskAutoMapper object
    MPC_LAND_ALT1,    \* parameter MPC_LAND_ALT1 as held by the object
    MPC_LAND_ALT2,    \* parameter MPC_LAND_ALT2 as held by the object
    loaded,           \* history: the (LAND_ALT1, LAND_ALT2) pair the last reload read,
                      \* <<>> before the first reload
    op,               \* history: the last operation that ran
    activated,        \* the task has been activated (the framework ticks only then)
    tick_type,        \* history: type of the latest tick of this activation,
                      \* NoType before its first tick
    prev_tick_type,   \* history: type of the tick before the latest tick of
                      \* this activation, NoType when there is none
    idle_seen,        \* history: this activation has had an idle tick
    prev_dist         \* history: the distance to ground the object held when
                      \* the latest tick began (the measurement of the tick
                      \* before it, if there was one)

vars == <<task, MPC_LAND_ALT1, MPC_LAND_ALT2, loaded, op, activated, tick_type,
          prev_tick_type, idle_seen, prev_dist>>

----------------------------------------------------------------------------
(* The methods, as functions on the record s of the object's members.      *)
(* s.calls is a history field: the calls made so far by the running        *)
(* operation, in order.                                                    *)

Called(s, name) == [s EXCEPT !.calls = Append(@, name)]

\* math::max
math_max(a, b) == IF a > b THEN a ELSE b

\* math::gradual(value, x_low, x_high, y_low, y_high)
math_gradual(value, x_low, x_high, y_low, y_high) ==
    IF FLt(value, x_low) THEN y_low
    ELSE IF FGt(value, x_high) THEN y_high
    ELSE LET a == FDiv(FSub(y_high, y_low), FSub(x_high, x_low))
             b == FSub(y_low, FMul(a, x_low))
         IN  FAdd(FMul(a, value), b)

\* floor of the square root of n >= 0
ISqrt(n) == CHOOSE r \in 0..n : r * r <= n /\ n < (r + 1) * (r + 1)

\* Vector2f(v).unit_or_zero() * c, for v with integer entries and integer norm
unit_or_zero_times(v, c) ==
    LET n == ISqrt(v[1].n * v[1].n + v[2].n * v[2].n)
    IN  IF n > 0 THEN <<FMul(FDiv(v[1], F(n)), c), FMul(FDiv(v[2], F(n)), c)>>
        ELSE <<F(0), F(0)>>

\* FlightTaskAuto::_setDefaultConstraints
setDefaultConstraints(s) ==
    [Called(s, "_setDefaultConstraints") EXCEPT
        !.constraints = [tilt |-> F(MPC_TILTMAX_AIR), speed_up |-> F(MPC_Z_VEL_MAX_UP),
                         speed_down |-> F(MPC_Z_VEL_MAX_DN), landing_gear |-> GEAR_KEEP]]

\* a variant of _updateAltitudeAboveGround that only rules out NAN readings
updateAltitudeAboveGroundNotNaN(s) ==
    LET s1 == [Called(s, "_updateAltitudeAboveGround") EXCEPT
                  !.alt_above_ground = FNeg(s.position[3])]
    IN  IF ~IsNaN(s1.dist_to_bottom)
        THEN [s1 EXCEPT !.alt_above_ground = s1.dist_to_bottom]
        ELSE IF s1.home_position.valid_alt
        THEN [s1 EXCEPT !.alt_above_ground = FAdd(FNeg(s1.position[3]), s1.home_position.z)]
        ELSE s1

\* a variant of _updateAltitudeAboveGround() without the default of -position
\* down: with no measurement and no valid home it keeps the last altitude
updateAltitudeAboveGroundKeepsLast(s) ==
    LET s1 == Called(s, "_updateAltitudeAboveGround")
    IN  IF IsFinite(s1.dist_to_bottom)
        THEN [s1 EXCEPT !.alt_above_ground = s1.dist_to_bottom]
        ELSE IF s1.home_position.valid_alt
        THEN [s1 EXCEPT !.alt_above_ground = FAdd(FNeg(s1.position[3]), s1.home_position.z)]
        ELSE s1

\* FlightTaskAutoMapper::_updateAltitudeAboveGround
updateAltitudeAboveGround(s) ==
    LET s1 == [Called(s, "_updateAltitudeAboveGround") EXCEPT
                  !.alt_above_ground = FNeg(s.position[3])]
    IN  IF IsFinite(s1.dist_to_bottom)
        THEN [s1 EXCEPT !.alt_above_ground = s1.dist_to_bottom]
        ELSE IF s1.home_position.valid_alt
        THEN [s1 EXCEPT !.alt_above_ground = FAdd(FNeg(s1.position[3]), s1.home_position.z)]
        ELSE s1

\* FlightTaskAutoMapper::_reset
reset(s) ==
    [Called(s, "_reset") EXCEPT
        !.velocity_setpoint = s.velocity,
        !.position_setpoint = s.position,
        !.speed_at_target = F(0)]

\* FlightTaskAutoMapper::_generateIdleSetpoints
generateIdleSetpoints(s) ==
    [Called(s, "_generateIdleSetpoints") EXCEPT
        !.position_setpoint = NaN3,
        !.velocity_setpoint = NaN3,
        !.thrust_setpoint = Zero3]

\* a variant of _generateLandSetpoints that leaves the landing gear alone
generateLandSetpointsNoGear(s) ==
    [Called(s, "_generateLandSetpoints") EXCEPT
        !.position_setpoint = Vec3(s.target[1], s.target[2], NaN),
        !.velocity_setpoint = Vec3(NaN, NaN, F(MPC_LAND_SPEED)),
        !.constraints.tilt = F(MPC_TILTMAX_LND),
        !.constraints.speed_down = F(MPC_LAND_SPEED)]

\* a variant of _generateLandSetpoints that also holds the target altitude
generateLandSetpointsToTarget(s) ==
    [Called(s, "_generateLandSetpoints") EXCEPT
        !.position_setpoint = s.target,
        !.velocity_setpoint = Vec3(NaN, NaN, F(MPC_LAND_SPEED)),
        !.constraints.tilt = F(MPC_TILTMAX_LND),
        !.constraints.speed_down = F(MPC_LAND_SPEED),
        !.constraints.landing_gear = GEAR_DOWN]

\* FlightTaskAutoMapper::_generateLandSetpoints
generateLandSetpoints(s) ==
    [Called(s, "_generateLandSetpoints") EXCEPT
        !.position_setpoint = Vec3(s.target[1], s.target[2], NaN),
        !.velocity_setpoint = Vec3(NaN, NaN, F(MPC_LAND_SPEED)),
        !.constraints.tilt = F(MPC_TILTMAX_LND),
        !.constraints.speed_down = F(MPC_LAND_SPEED),
        !.constraints.landing_gear = GEAR_DOWN]

\* _generateSetpoints of the line-following subclass: position and velocity
\* setpoints are held; the subclass owns the speed at target
generateSetpoints(s, sat) ==
    [Called(s, "_generateSetpoints") EXCEPT !.speed_at_target = sat]

\* a variant of _generateTakeoffSetpoints with the two speeds exchanged
generateTakeoffSetpointsSwapped(s, alt1, alt2) ==
    [Called(s, "_generateTakeoffSetpoints") EXCEPT
        !.position_setpoint = s.target,
        !.velocity_setpoint = NaN3,
        !.constraints.speed_up =
            math_gradual(s.alt_above_ground, F(alt2), F(alt1),
                         s.constraints.speed_up, F(MPC_TKO_SPEED)),
        !.constraints.landing_gear = GEAR_DOWN]

\* a variant of _generateTakeoffSetpoints that sends a zero thrust setpoint
generateTakeoffSetpointsZeroThrust(s, alt1, alt2) ==
    [Called(s, "_generateTakeoffSetpoints") EXCEPT
        !.position_setpoint = s.target,
        !.velocity_setpoint = NaN3,
        !.thrust_setpoint = Zero3,
        !.constraints.speed_up =
            math_gradual(s.alt_above_ground, F(alt2), F(alt1),
                         F(MPC_TKO_SPEED), s.constraints.speed_up),
        !.constraints.landing_gear = GEAR_DOWN]

\* FlightTaskAutoMapper::_generateTakeoffSetpoints
generateTakeoffSetpoints(s, alt1, alt2) ==
    [Called(s, "_generateTakeoffSetpoints") EXCEPT
        !.position_setpoint = s.target,
        !.velocity_setpoint = NaN3,
        !.constraints.speed_up =
            math_gradual(s.alt_above_ground, F(alt2), F(alt1),
                         F(MPC_TKO_SPEED), s.constraints.speed_up),
        !.constraints.landing_gear = GEAR_DOWN]

\* a variant of _generateVelocitySetpoints that normalises with unit():
\* the division by the norm is not guarded
generateVelocitySetpointsUnit(s) ==
    LET n == F(ISqrt(s.velocity[1].n * s.velocity[1].n
                     + s.velocity[2].n * s.velocity[2].n))
    IN  [Called(s, "_generateVelocitySetpoints") EXCEPT
            !.position_setpoint = Vec3(NaN, NaN, s.position[3]),
            !.velocity_setpoint =
                Vec3(FMul(FDiv(s.velocity[1], n), F(mc_cruise_speed)),
                     FMul(FDiv(s.velocity[2], n), F(mc_cruise_speed)), NaN)]

\* FlightTaskAutoMapper::_generateVelocitySetpoints
generateVelocitySetpoints(s) ==
    LET vel_sp_xy == unit_or_zero_times(s.velocity, F(mc_cruise_speed))
    IN  [Called(s, "_generateVelocitySetpoints") EXCEPT
            !.position_setpoint = Vec3(NaN, NaN, s.position[3]),
            !.velocity_setpoint = Vec3(vel_sp_xy[1], vel_sp_xy[2], NaN)]

\* a variant of _highEnoughForLandingGear that includes the altitude 2.0
atLeastLandingGearAltitude(s) == ~FLt(s.alt_above_ground, F(GearAltitude))

\* FlightTaskAutoMapper::_highEnoughForLandingGear
highEnoughForLandingGear(s) == FGt(s.alt_above_ground, F(GearAltitude))

follow_line(t) == t = "loiter" \/ t = "position"

\* a variant of resetOnFollowLine that forgets the previous type
resetOnEveryFollowLine(s) ==
    IF follow_line(s.type) THEN reset(s) ELSE s

\* update(), lines 57-63: first tick of line following resets the setpoints
resetOnFollowLine(s) ==
    IF follow_line(s.type) /\ ~follow_line(s.type_previous) THEN reset(s) ELSE s

\* a variant of resetThrustAfterIdle that never resets
keepThrustAfterIdle(s) == s

\* update(), lines 65-71: thrust setpoint back to NAN when the vehicle was idle
resetThrustAfterIdle(s) ==
    IF s.type_previous = "idle"
    THEN [Called(s, "thrust_nan") EXCEPT !.thrust_setpoint = NaN3]
    ELSE s

\* a variant of the dispatch that has no branch for the velocity type
dispatchWithoutVelocity(s, alt1, alt2, sat) ==
    IF s.type = "idle" THEN generateIdleSetpoints(s)
    ELSE IF s.type = "land" THEN generateLandSetpoints(s)
    ELSE IF follow_line(s.type) THEN generateSetpoints(s, sat)
    ELSE IF s.type = "takeoff" THEN generateTakeoffSetpoints(s, alt1, alt2)
    ELSE s

\* update(), lines 73-87: the generator of the current type
dispatch(s, alt1, alt2, sat) ==
    IF s.type = "idle" THEN generateIdleSetpoints(s)
    ELSE IF s.type = "land" THEN generateLandSetpoints(s)
    ELSE IF follow_line(s.type) THEN generateSetpoints(s, sat)
    ELSE IF s.type = "takeoff" THEN generateTakeoffSetpoints(s, alt1, alt2)
    ELSE IF s.type = "velocity" THEN generateVelocitySetpoints(s)
    ELSE s

\* a variant of landingGear that lets a generator's GEAR_DOWN stand
landingGearUnlessDown(s) ==
    IF highEnoughForLandingGear(s) /\ s.constraints.landing_gear # GEAR_DOWN
    THEN [Called(s, "gear_up") EXCEPT !.constraints.landing_gear = GEAR_UP]
    ELSE s

\* update(), lines 89-93: raise the landing gear when high enough
landingGear(s) ==
    IF highEnoughForLandingGear(s)
    THEN [Called(s, "gear_up") EXCEPT !.constraints.landing_gear = GEAR_UP]
    ELSE s

\* a variant of update that does not reset the constraints first
updateKeepsConstraints(s, alt1, alt2, sat) ==
    LET s2 == updateAltitudeAboveGround(s)
        s3 == resetOnFollowLine(s2)
        s4 == resetThrustAfterIdle(s3)
        s5 == dispatch(s4, alt1, alt2, sat)
        s6 == landingGear(s5)
    IN  Called([s6 EXCEPT !.type_previous = s6.type], "return true")

\* a variant of update that resets the thrust after the generator ran
updateThrustResetLast(s, alt1, alt2, sat) ==
    LET s1 == setDefaultConstraints(s)
        s2 == updateAltitudeAboveGround(s1)
        s3 == resetOnFollowLine(s2)
        s5 == dispatch(s3, alt1, alt2, sat)
        s4 == resetThrustAfterIdle(s5)
        s6 == landingGear(s4)
    IN  Called([s6 EXCEPT !.type_previous = s6.type], "return true")

\* a variant of update() that never records the type of the tick
updateForgetsType(s, alt1, alt2, sat) ==
    LET s1 == setDefaultConstraints(s)
        s2 == updateAltitudeAboveGround(s1)
        s3 == resetOnFollowLine(s2)
        s4 == resetThrustAfterIdle(s3)
        s5 == dispatch(s4, alt1, alt2, sat)
        s6 == landingGear(s5)
    IN  Called(s6, "return true")

\* FlightTaskAutoMapper::update
update(s, alt1, alt2, sat) ==
    LET s1 == setDefaultConstraints(s)
        s2 == updateAltitudeAboveGround(s1)
        s3 == resetOnFollowLine(s2)
        s4 == resetThrustAfterIdle(s3)
        s5 == dispatch(s4, alt1, alt2, sat)
        s6 == landingGear(s5)
    IN  Called([s6 EXCEPT !.type_previous = s6.type], "return true")

\* a variant of FlightTaskAuto::activate that keeps the previous type
baseActivateKeepsType(s) == setDefaultConstraints(Called(s, "FlightTaskAuto::activate"))

\* FlightTaskAuto::activate: the setpoint state and the previous type are
\* created anew ("no previous type")
baseActivate(s) ==
    [setDefaultConstraints(Called(s, "FlightTaskAuto::activate")) EXCEPT
        !.type_previous = NoType]

\* a variant of activate that forgets _reset()
activateWithoutReset(s) == baseActivate(s)

\* FlightTaskAutoMapper::activate
activate(s) == reset(baseActivate(s))

\* a variant of updateParams that corrects the wrong parameter
updateParamsLowersAlt2(a1, a2) == [alt1 |-> a1, alt2 |-> IF a2 > a1 THEN a1 ELSE a2]

\* a variant of updateParams() that loads the stored values as they are
updateParamsUnchecked(a1, a2) == [alt1 |-> a1, alt2 |-> a2]

\* FlightTaskAutoMapper::updateParams on the stored pair (a1, a2):
\* the pair held after the reload
updateParams(a1, a2) == [alt1 |-> math_max(a1, a2), alt2 |-> a2]

----------------------------------------------------------------------------
(* The state machine. *)

\* the members of the object after construction
InitialTask ==
    [type |-> "idle", type_previous |-> NoType,
     position |-> Vec3(F(1), F(2), F(0)),
     velocity |-> Vec3(F(0), F(0), F(1)),
     target |-> Vec3(F(5), F(6), F(-2)),
     dist_to_bottom |-> NaN,
     home_position |-> NoHome,
     position_setpoint |-> NaN3,
     velocity_setpoint |-> NaN3,
     thrust_setpoint |-> NaN3,
     speed_at_target |-> F(0),
     constraints |-> [tilt |-> F(MPC_TILTMAX_AIR),
                      speed_up |-> F(MPC_Z_VEL_MAX_UP),
                      speed_down |-> F(MPC_Z_VEL_MAX_DN),
                      landing_gear |-> GEAR_KEEP],
     alt_above_ground |-> F(0),
     calls |-> <<>>]

\* the object after construction, holding the parameter pair (a1, a2)
Constructed(a1, a2) ==
    /\ task = InitialTask
    /\ MPC_LAND_ALT1 = a1
    /\ MPC_LAND_ALT2 = a2
    /\ loaded = <<>>
    /\ op = "init"
    /\ activated = FALSE
    /\ tick_type = NoType
    /\ prev_tick_type = NoType
    /\ idle_seen = FALSE
    /\ prev_dist = NaN

\* the framework activates the task, with the vehicle state of that moment
Activation(positions, velocities) ==
    \E pos \in positions, vel \in velocities :
        /\ task' = activate([task EXCEPT !.position = pos, !.velocity = vel,
                                         !.calls = <<>>])
        /\ op' = "activate"
        /\ activated' = TRUE
        /\ tick_type' = NoType
        /\ prev_tick_type' = NoType
        /\ idle_seen' = FALSE
        /\ UNCHANGED <<MPC_LAND_ALT1, MPC_LAND_ALT2, loaded, prev_dist>>

\* one tick: the framework refreshes the inputs, then calls update()
Tick(types, positions, velocities, targets, distances, homes) ==
    /\ activated
    /\ \E t \in types, pos \in positions, vel \in velocities,
          tgt \in targets, dist \in distances, home \in homes :
         \E sat \in (IF follow_line(t) THEN SpeedsAtTarget ELSE {F(0)}) :
            /\ task' = update([task EXCEPT !.type = t, !.position = pos,
                                           !.velocity = vel, !.target = tgt,
                                           !.dist_to_bottom = dist,
                                           !.home_position = home,
                                           !.calls = <<>>],
                              MPC_LAND_ALT1, MPC_LAND_ALT2, sat)
            /\ tick_type' = t
            /\ prev_tick_type' = tick_type
            /\ idle_seen' = (idle_seen \/ t = "idle")
            /\ prev_dist' = task.dist_to_bottom
    /\ op' = "update"
    /\ UNCHANGED <<MPC_LAND_ALT1, MPC_LAND_ALT2, loaded, activated>>

\* a parameter reload: the parameters are read from the store, then
\* updateParams() corrects LAND_ALT1
Reload(alts) ==
    \E a1 \in alts, a2 \in alts :
        /\ loaded' = <<a1, a2>>
        /\ MPC_LAND_ALT1' = updateParams(a1, a2).alt1
        /\ MPC_LAND_ALT2' = updateParams(a1, a2).alt2
        /\ op' = "updateParams"
        /\ UNCHANGED <<task, activated, tick_type, prev_tick_type, idle_seen,
                       prev_dist>>

----------------------------------------------------------------------------
(* Spec: the waypoint-type state machine.  Every type, vehicle state and   *)
(* target; the altitude comes from the local position (no distance sensor, *)
(* no home reference); the parameters stay as constructed.                 *)

Init == Constructed(MaxParamAlt, 1)

Activate == Activation(Positions, Velocities)

Update == Tick(WaypointTypes, Positions, Velocities, Targets, {NaN}, {NoHome})

Next == Activate \/ Update

Spec == Init /\ [][Next]_vars

----------------------------------------------------------------------------
(* SpecAlt: the altitude estimator and what hangs on it.  Every distance   *)
(* reading and home reference, for a type whose generator lowers the gear  *)
(* and one whose generator leaves it alone.                                *)

AltTypes == {"land", "velocity"}

UpdateAlt ==
    Tick(AltTypes, Positions, {Vec3(F(0), F(0), F(1))}, {Vec3(F(5), F(6), F(-2))},
         Distances, Homes)

NextAlt == Activate \/ UpdateAlt

SpecAlt == Init /\ [][NextAlt]_vars

----------------------------------------------------------------------------
(* SpecParams: parameter reloads interleaved with ticks.  Every stored     *)
(* pair (LAND_ALT1, LAND_ALT2), at construction and at each reload.        *)

InitParams == \E a1 \in ParamAlts, a2 \in ParamAlts : Constructed(a1, a2)

UpdateParams == Reload(ParamAlts)

ParamTypes == {"takeoff", "position"}

UpdateTakeoff ==
    Tick(ParamTypes, Positions, {Vec3(F(0), F(0), F(1))}, {Vec3(F(5), F(6), F(-2))},
         {NaN}, {NoHome})

NextParams == Activate \/ UpdateTakeoff \/ UpdateParams

SpecParams == InitParams /\ [][NextParams]_vars

----------------------------------------------------------------------------
(* Properties. *)

\* the last operation called `name`, and how often
Ran(name) == \E i \in DOMAIN task.calls : task.calls[i] = name
Count(name) == Cardinality({i \in DOMAIN task.calls : task.calls[i] = name})

\* the state is the end of a tick that had a previous tick in its activation
AfterLaterTick == op = "update" /\ prev_tick_type # NoType

LineTypes == {"loiter", "position"}

\* C1: in a tick that follows another tick of the same activation, _reset()
\* runs if and only if the tick's type is loiter or position and the previous
\* tick's type was neither; it then runs exactly once.  So position->loiter
\* and loiter->position never reset, and takeoff->loiter resets once, on the
\* first loiter tick only.
C1_ResetIffLineFollowingStarts ==
    AfterLaterTick =>
        /\ Ran("_reset") <=> (task.type \in LineTypes /\ prev_tick_type \notin LineTypes)
        /\ Count("_reset") <= 1

C1_Witness ==
    /\ AfterLaterTick
    /\ prev_tick_type = "takeoff"
    /\ task.type = "loiter"
    /\ Count("_reset") = 1
    /\ task.position_setpoint = task.position

\* C2: activate(), from any state, leaves the position setpoint equal to the
\* current position, the velocity setpoint equal to the current velocity and
\* the speed at target equal to 0.
C2_ActivateSeedsSetpoints ==
    op = "activate" =>
        /\ task.position_setpoint = task.position
        /\ task.velocity_setpoint = task.velocity
        /\ task.speed_at_target = F(0)

\* an activation that follows a line-following tick, at another position
\* than the one the object was constructed with
C2_Witness ==
    /\ op = "activate"
    /\ task.type = "loiter"
    /\ task.position[3] = F(-MaxAlt)
    /\ task.position_setpoint = task.position
    /\ task.speed_at_target = F(0)

\* C3: a tick that follows another tick of the same activation ends with the
\* thrust setpoint having been reset to (NAN, NAN, NAN) exactly when the
\* previous tick's type was idle and the current type is not idle.
C3_ThrustNaNOnLeavingIdle ==
    AfterLaterTick =>
        ((Ran("thrust_nan") /\ task.thrust_setpoint = NaN3)
            <=> (prev_tick_type = "idle" /\ task.type # "idle"))

C3_Witness ==
    /\ AfterLaterTick
    /\ prev_tick_type = "idle"
    /\ task.type = "land"
    /\ Ran("thrust_nan")
    /\ task.thrust_setpoint = NaN3

GearDownTypes == {"land", "takeoff"}

HighEnough == FGt(task.alt_above_ground, F(GearAltitude))

\* C4 as stated: above 2.0 the gear is UP, unless the generator of a land or
\* takeoff tick set DOWN, which then stays
C4_Original ==
    (op = "update" /\ HighEnough) =>
        task.constraints.landing_gear =
            (IF task.type \in GearDownTypes THEN GEAR_DOWN ELSE GEAR_UP)

\* C4: at the end of every tick whose altitude above ground is > 2.0 the
\* landing gear is UP, whatever the type: the GEAR_DOWN of the land and
\* takeoff generators is overwritten.
C4_GearUpWhenHighEnough ==
    (op = "update" /\ HighEnough) => task.constraints.landing_gear = GEAR_UP

C4_Witness ==
    /\ op = "update"
    /\ HighEnough
    /\ task.type = "land"
    /\ Ran("_generateLandSetpoints")
    /\ task.constraints.landing_gear = GEAR_UP

----------------------------------------------------------------------------
(* Properties of the takeoff ramp and of the parameter reload (SpecParams). *)

AfterTakeoffTick == op = "update" /\ task.type = "takeoff"

Reloaded == loaded # <<>>

\* C6: after a reload LAND_ALT1 is the larger of the two loaded values and
\* LAND_ALT2 is the loaded one; from the first reload on, LAND_ALT1 >=
\* LAND_ALT2.
C6_ReloadOrdersLandAlts ==
    Reloaded =>
        /\ MPC_LAND_ALT1 = (IF loaded[1] < loaded[2] THEN loaded[2] ELSE loaded[1])
        /\ MPC_LAND_ALT2 = loaded[2]
        /\ MPC_LAND_ALT1 >= MPC_LAND_ALT2

\* a reload that read LAND_ALT1 < LAND_ALT2
C6_Witness ==
    /\ op = "updateParams"
    /\ loaded[1] < loaded[2]
    /\ MPC_LAND_ALT1 = loaded[2]
    /\ MPC_LAND_ALT2 = loaded[2]

----------------------------------------------------------------------------
(* Properties of the altitude estimator (SpecAlt). *)

\* the three-branch priority reference of the altitude above ground
AltitudeReference(position_down, distance_to_ground, home_valid, home_altitude) ==
    CASE IsFinite(distance_to_ground) -> distance_to_ground
      [] ~IsFinite(distance_to_ground) /\ home_valid
            -> FAdd(FNeg(position_down), home_altitude)
      [] OTHER -> FNeg(position_down)

\* C7: after every tick the altitude above ground is the distance to ground
\* when that is finite, else -position_down + home altitude when the home
\* altitude is valid, else -position_down.
C7_AltitudeMatchesReference ==
    op = "update" =>
        task.alt_above_ground =
            AltitudeReference(task.position[3], task.dist_to_bottom,
                              task.home_position.valid_alt, task.home_position.z)

\* a finite distance wins over a valid home reference that would give
\* another altitude
C7_Witness ==
    /\ op = "update"
    /\ IsFinite(task.dist_to_bottom)
    /\ task.home_position.valid_alt
    /\ task.alt_above_ground = task.dist_to_bottom
    /\ task.alt_above_ground # FAdd(FNeg(task.position[3]), task.home_position.z)
    /\ task.alt_above_ground # FNeg(task.position[3])

----------------------------------------------------------------------------
(* Properties of the constraints and of the idle generator (Spec). *)

\* the ascent-speed limit of a takeoff tick at altitude alt, for alt2 < alt1
RampReference(alt, alt1, alt2) ==
    IF FLt(alt, F(alt2)) THEN F(MPC_TKO_SPEED)
    ELSE IF FGt(alt, F(alt1)) THEN F(MPC_Z_VEL_MAX_UP)
    ELSE FAdd(F(MPC_TKO_SPEED),
              FDiv(FMul(F(MPC_Z_VEL_MAX_UP - MPC_TKO_SPEED), FSub(alt, F(alt2))),
                   F(alt1 - alt2)))

\* the constraints a tick of type t at altitude alt ends with
ConstraintsReference(t, alt, alt1, alt2) ==
    [tilt |-> IF t = "land" THEN F(MPC_TILTMAX_LND) ELSE F(MPC_TILTMAX_AIR),
     speed_up |-> IF t = "takeoff" THEN RampReference(alt, alt1, alt2)
                  ELSE F(MPC_Z_VEL_MAX_UP),
     speed_down |-> IF t = "land" THEN F(MPC_LAND_SPEED) ELSE F(MPC_Z_VEL_MAX_DN),
     landing_gear |-> IF FGt(alt, F(GearAltitude)) THEN GEAR_UP
                      ELSE IF t \in GearDownTypes THEN GEAR_DOWN
                      ELSE GEAR_KEEP]

\* C8: the constraints at the end of a tick are a function of that tick's
\* type, altitude and parameters only; nothing of an earlier tick persists
\* (after a land or takeoff tick the limits of a tick of another type are
\* the defaults again).
C8_ConstraintsDoNotPersist ==
    op = "update" =>
        task.constraints =
            ConstraintsReference(task.type, task.alt_above_ground,
                                 MPC_LAND_ALT1, MPC_LAND_ALT2)

\* a loiter tick right after a land tick, with the defaults back
C8_Witness ==
    /\ AfterLaterTick
    /\ prev_tick_type = "land"
    /\ task.type = "loiter"
    /\ task.constraints.tilt = F(MPC_TILTMAX_AIR)
    /\ task.constraints.speed_down = F(MPC_Z_VEL_MAX_DN)

\* C9 as stated: the gear command at the end of a tick is UP or DOWN
C9_Original ==
    op = "update" => task.constraints.landing_gear \in {GEAR_UP, GEAR_DOWN}

\* C9: at the end of every tick the gear command is UP, DOWN or the default
\* that _setDefaultConstraints() left, and it is that default exactly when
\* the altitude is not above 2.0 and the type is neither land nor takeoff.
C9_GearCommandValues ==
    op = "update" =>
        /\ task.constraints.landing_gear \in {GEAR_UP, GEAR_DOWN, GEAR_KEEP}
        /\ task.constraints.landing_gear = GEAR_KEEP
              <=> (~HighEnough /\ task.type \notin GearDownTypes)
        /\ task.constraints.landing_gear = GEAR_DOWN
              <=> (~HighEnough /\ task.type \in GearDownTypes)

\* a loiter tick near the ground: the gear command is the default
C9_Witness ==
    /\ op = "update"
    /\ task.type = "loiter"
    /\ ~HighEnough
    /\ task.constraints.landing_gear = GEAR_KEEP

\* C10: at the end of every idle tick the position and velocity setpoints
\* are NAN on all axes and the thrust setpoint is zero on all axes, also
\* when the previous tick was idle and the thrust was first reset to NAN.
C10_IdleSetpoints ==
    (op = "update" /\ task.type = "idle") =>
        /\ task.position_setpoint = NaN3
        /\ task.velocity_setpoint = NaN3
        /\ task.thrust_setpoint = Zero3

\* an idle tick after an idle tick
C10_Witness ==
    /\ AfterLaterTick
    /\ prev_tick_type = "idle"
    /\ task.type = "idle"
    /\ task.calls = <<"_setDefaultConstraints", "_updateAltitudeAboveGround",
                      "thrust_nan", "_generateIdleSetpoints", "return true">>
    /\ task.thrust_setpoint = Zero3

----------------------------------------------------------------------------
(* Properties of the generators (Spec). *)

\* the thrust setpoint that update() hands to the generator of a tick that
\* starts in the unprimed state: NAN after an idle tick, else as it was
ThrustBeforeGenerator ==
    IF task.type_previous = "idle" THEN NaN3 ELSE task.thrust_setpoint

\* C11: a land tick ends with the position setpoint (target x, target y,
\* NAN), the velocity setpoint (NAN, NAN, LAND_SPEED), the tilt limit
\* TILTMAX_LND and the descent-speed limit LAND_SPEED; the thrust setpoint
\* is the one the generator was handed and the ascent-speed limit is the
\* default of the start of the tick.
C11_LandTick ==
    [][(op' = "update" /\ task'.type = "land") =>
          /\ task'.position_setpoint = Vec3(task'.target[1], task'.target[2], NaN)
          /\ task'.velocity_setpoint = Vec3(NaN, NaN, F(MPC_LAND_SPEED))
          /\ task'.constraints.tilt = F(MPC_TILTMAX_LND)
          /\ task'.constraints.speed_down = F(MPC_LAND_SPEED)
          /\ task'.thrust_setpoint = ThrustBeforeGenerator
          /\ task'.constraints.speed_up = F(MPC_Z_VEL_MAX_UP)]_vars

\* a land tick after an idle tick of an earlier activation: the zero thrust
\* is still there
C11_Witness ==
    /\ op = "update"
    /\ task.type = "land"
    /\ Ran("_generateLandSetpoints")
    /\ task.position_setpoint = Vec3(F(7), F(8), NaN)
    /\ task.thrust_setpoint = Zero3

\* C12: a velocity tick ends with the position setpoint (NAN, NAN, current
\* position z) and a NAN vertical velocity setpoint; when the current
\* horizontal velocity is exactly (0, 0) the horizontal velocity setpoint is
\* (0, 0), not NAN.
C12_VelocityTick ==
    (op = "update" /\ task.type = "velocity") =>
        /\ task.position_setpoint = Vec3(NaN, NaN, task.position[3])
        /\ task.velocity_setpoint[3] = NaN
        /\ (task.velocity[1] = F(0) /\ task.velocity[2] = F(0))
              => (task.velocity_setpoint[1] = F(0) /\ task.velocity_setpoint[2] = F(0))

\* a velocity tick of a vehicle with no horizontal velocity
C12_Witness ==
    /\ op = "update"
    /\ task.type = "velocity"
    /\ task.velocity = Vec3(F(0), F(0), F(1))
    /\ task.velocity_setpoint = Vec3(F(0), F(0), NaN)

\* C13: the altitude check runs after the generator, for every type: a tick
\* above 2.0 ends with the gear UP, also a land or takeoff tick, whose
\* generator set DOWN; a tick that is not above 2.0 leaves the gear as the
\* generator or the defaults left it, so a land or takeoff tick ends DOWN.
C13_AltitudeCheckAfterDispatch ==
    op = "update" =>
        /\ HighEnough =>
              /\ Ran("gear_up")
              /\ task.calls[Len(task.calls) - 1] = "gear_up"
              /\ task.constraints.landing_gear = GEAR_UP
        /\ ~HighEnough =>
              /\ ~Ran("gear_up")
              /\ task.constraints.landing_gear # GEAR_UP
              /\ task.type \in GearDownTypes
                    => task.constraints.landing_gear = GEAR_DOWN

\* a takeoff tick above 2.0: the generator ran, the gear is UP
C13_Witness ==
    /\ op = "update"
    /\ task.type = "takeoff"
    /\ HighEnough
    /\ Ran("_generateTakeoffSetpoints")
    /\ task.constraints.landing_gear = GEAR_UP

AfterFirstTick == op = "update" /\ tick_type # NoType /\ prev_tick_type = NoType

C16_LineRunHoldsSetpoints ==
    [][(op' = "update" /\ tick_type \in LineTypes /\ task'.type \in LineTypes) =>
          /\ task'.position_setpoint = task.position_setpoint
          /\ task'.velocity_setpoint = task.velocity_setpoint
          /\ task'.thrust_setpoint = task.thrust_setpoint
          /\ ~\E i \in DOMAIN task'.calls : task'.calls[i] = "_reset"]_vars

\* a later tick of a line-following run in which the vehicle has moved away
\* from the state the reset captured and the target has changed
C16_Witness ==
    /\ AfterLaterTick
    /\ prev_tick_type \in LineTypes
    /\ task.type \in LineTypes
    /\ Ran("_generateSetpoints")
    /\ task.position_setpoint[3] = F(0)
    /\ task.position[3] = F(-MaxAlt)
    /\ task.velocity_setpoint # task.velocity
    /\ task.target = Vec3(F(7), F(8), F(-4))

\* the names of the setpoint generators
Generators ==
    {"_generateIdleSetpoints", "_generateLandSetpoints", "_generateSetpoints",
     "_generateTakeoffSetpoints", "_generateVelocitySetpoints"}

\* the generator that belongs to a waypoint type
GeneratorOf(type) ==
    CASE type = "idle" -> "_generateIdleSetpoints"
      [] type = "land" -> "_generateLandSetpoints"
      [] type \in LineTypes -> "_generateSetpoints"
      [] type = "takeoff" -> "_generateTakeoffSetpoints"
      [] type = "velocity" -> "_generateVelocitySetpoints"

\* C17: every update() tick runs exactly one generator, the one that belongs
\* to the type of the tick whatever the previous type was, and ends by
\* returning true.
C17_OneGeneratorPerTick ==
    op = "update" =>
        /\ task.type \in WaypointTypes
        /\ \A g \in Generators :
              Count(g) = (IF g = GeneratorOf(task.type) THEN 1 ELSE 0)
        /\ task.calls[Len(task.calls)] = "return true"
        /\ Count("return true") = 1

\* a velocity tick that follows a takeoff tick and ran the velocity generator
C17_Witness ==
    /\ AfterLaterTick
    /\ prev_tick_type = "takeoff"
    /\ task.type = "velocity"
    /\ Count("_generateVelocitySetpoints") = 1
    /\ Count("_generateTakeoffSetpoints") = 0
    /\ Ran("return true")

\* C18: however reloads and ticks interleave and whatever values the reloads
\* load, a takeoff tick that runs after a reload computes its ascent-speed
\* limit from a ramp whose upper altitude LAND_ALT1 is not below its lower
\* altitude LAND_ALT2.
C18_RampDomainNotInverted ==
    (AfterTakeoffTick /\ Reloaded) =>
        /\ ~(MPC_LAND_ALT1 < MPC_LAND_ALT2)
        /\ task.constraints.speed_up =
              math_gradual(task.alt_above_ground, F(MPC_LAND_ALT2), F(MPC_LAND_ALT1),
                           F(MPC_TKO_SPEED), F(MPC_Z_VEL_MAX_UP))

\* a later takeoff tick, inside the ramp, after a reload whose stored
\* LAND_ALT1 was below the stored LAND_ALT2 and was raised by the reload
C18_Witness ==
    /\ AfterTakeoffTick
    /\ prev_tick_type = "takeoff"
    /\ Reloaded
    /\ loaded = <<1, MaxParamAlt>>
    /\ MPC_LAND_ALT1 = MaxParamAlt
    /\ task.alt_above_ground = F(MaxParamAlt)
    /\ Ran("_generateTakeoffSetpoints")

\* the ascent-speed limit a takeoff tick computes at an altitude
TakeoffRamp(alt) ==
    math_gradual(alt, F(MPC_LAND_ALT2), F(MPC_LAND_ALT1),
                 F(MPC_TKO_SPEED), F(MPC_Z_VEL_MAX_UP))

StaleAltitudes == {NaN, PInf} \cup {F(a) : a \in 0..(MaxAlt + MaxHome)}

\* a freshly constructed object that is given the inputs of a tick: an
\* execution with no tick history at all
FreshWithInputsOf(s) ==
    [InitialTask EXCEPT !.position = s.position,
                        !.dist_to_bottom = s.dist_to_bottom,
                        !.home_position = s.home_position]

\* C20: the altitude above ground at the end of a tick depends on that tick's
\* position down, distance to ground and home reference only: an object with
\* no history, or with any other altitude left from earlier ticks, ends the
\* tick with the same altitude and the same landing-gear override decision;
\* when the distance measurement drops out (finite, then not finite) the
\* very next tick uses the home-based or position-based altitude.
C20_AltitudeStateless ==
    [][op' = "update" =>
          LET other == updateAltitudeAboveGround(FreshWithInputsOf(task'))
          IN  /\ task'.alt_above_ground = other.alt_above_ground
              /\ (\E i \in DOMAIN task'.calls : task'.calls[i] = "gear_up")
                    <=> highEnoughForLandingGear(other)
              /\ \A stale \in StaleAltitudes :
                    updateAltitudeAboveGround(
                        [task EXCEPT !.position = task'.position,
                                     !.dist_to_bottom = task'.dist_to_bottom,
                                     !.home_position = task'.home_position,
                                     !.alt_above_ground = stale]).alt_above_ground
                       = task'.alt_above_ground
              /\ (IsFinite(task.dist_to_bottom) /\ ~IsFinite(task'.dist_to_bottom))
                    => task'.alt_above_ground =
                          (IF task'.home_position.valid_alt
                           THEN FAdd(FNeg(task'.position[3]), task'.home_position.z)
                           ELSE FNeg(task'.position[3]))]_vars

\* the tick right after a distance sensor dropped out, with no valid home:
\* the altitude is -position down, not the last measurement, and the gear
\* override follows it
C20_Witness ==
    /\ AfterLaterTick
    /\ prev_dist = F(1)
    /\ IsNaN(task.dist_to_bottom)
    /\ ~task.home_position.valid_alt
    /\ task.alt_above_ground = F(MaxAlt)
    /\ task.alt_above_ground = FNeg(task.position[3])
    /\ Ran("gear_up")

====
